---- MODULE Spec2Model ----
(***************************************************************************)
(* A model of the circuit breaker of awasameCircuitBreaker: the sliding    *)
(* window (ring buffer of outcomes), the three-state breaker that consults *)
(* it, and concurrent callers of Execute and State.                        *)
(*                                                                         *)
(* Time is a logical clock.  One tick is 30 seconds, so that the default   *)
(* RecoveryTimeout (30 * time.Second) is one tick.                         *)
(* The failure rate is a float in the code; fails/count of two small       *)
(* integers is kept as the exact fraction <<fails, count>>, and thresholds *)
(* are fractions <<num, den>>, compared by cross-multiplication.           *)
(***************************************************************************)
EXTENDS Integers, Sequences, FiniteSets, TLC

\* ------------------------------------------------------------------ bounds
\* Execute is called at most MaxCalls times in a behaviour.
MaxCalls == 4
\* The clock stops after MaxTime ticks.
MaxTime == 2

\* The goroutines calling into the one breaker.
Callers == {"g1", "g2"}

\* ------------------------------------------------------------ sliding window
success == TRUE
failure == FALSE

newSlidingWindow(size) ==
    LET n == IF size <= 0 THEN 1 ELSE size
    IN  [buf |-> [i \in 1..n |-> failure], pos |-> 0, count |-> 0, fails |-> 0]

\* Mutant: overwriting a failure leaves fails as it is.
recordNoEvict(w, o) ==
    LET full   == w.count = Len(w.buf)
        count1 == IF full THEN w.count ELSE w.count + 1
    IN  [buf   |-> [w.buf EXCEPT ![w.pos + 1] = o],
         pos   |-> (w.pos + 1) % Len(w.buf),
         count |-> count1,
         fails |-> IF o = failure THEN w.fails + 1 ELSE w.fails]

\* w.record(o)
record(w, o) ==
    LET full   == w.count = Len(w.buf)
        old    == w.buf[w.pos + 1]
        fails1 == IF full /\ old = failure THEN w.fails - 1 ELSE w.fails
        count1 == IF full THEN w.count ELSE w.count + 1
    IN  [buf   |-> [w.buf EXCEPT ![w.pos + 1] = o],
         pos   |-> (w.pos + 1) % Len(w.buf),
         count |-> count1,
         fails |-> IF o = failure THEN fails1 + 1 ELSE fails1]

\* The rate as the fraction <<numerator, denominator>>.
failureRate(w) == IF w.count = 0 THEN <<0, 1>> ELSE <<w.fails, w.count>>

total(w) == w.count

\* Mutant: reset leaves fails as it is.
resetKeepFails(w) == [w EXCEPT !.pos = 0, !.count = 0]

\* w.reset(); buf keeps what it holds.
reset(w) == [w EXCEPT !.pos = 0, !.count = 0, !.fails = 0]

\* a >= b for fractions with positive denominators.
RateGE(a, b) == a[1] * b[2] >= b[1] * a[2]

\* ------------------------------------------------------------------ states
StateClosed   == "closed"
StateOpen     == "open"
StateHalfOpen == "half-open"

ErrCircuitOpen == "circuit breaker is open"

\* ------------------------------------------------------------ configuration
DefaultWindowSize == 20
DefaultFailureThreshold == <<1, 2>>
DefaultMinRequests == 5
DefaultRecoveryTimeout == 1
DefaultProbeCount == 3

\* Fallback and OnStateChange are TRUE when the function is set (non-nil).
Cfg(ws, th, mr, rt, pc, fb, osc) ==
    [Name |-> "test", WindowSize |-> ws, FailureThreshold |-> th,
     MinRequests |-> mr, RecoveryTimeout |-> rt, ProbeCount |-> pc,
     Fallback |-> fb, OnStateChange |-> osc]

withDefaults(c) ==
    [c EXCEPT
       !.WindowSize       = IF c.WindowSize <= 0 THEN DefaultWindowSize ELSE @,
       !.FailureThreshold = IF c.FailureThreshold[1] <= 0
                              THEN DefaultFailureThreshold ELSE @,
       !.MinRequests      = IF c.MinRequests <= 0 THEN DefaultMinRequests ELSE @,
       !.RecoveryTimeout  = IF c.RecoveryTimeout <= 0
                              THEN DefaultRecoveryTimeout ELSE @,
       !.ProbeCount       = IF c.ProbeCount <= 0 THEN DefaultProbeCount ELSE @]

\* The configurations a breaker is constructed with.
Configs ==
    { Cfg(0, <<0, 1>>, 2, 0, 0, TRUE, TRUE),    \* defaults but for MinRequests
      Cfg(2, <<1, 2>>, 2, 2, 1, FALSE, FALSE),
      Cfg(3, <<1, 1>>, 1, 1, 2, TRUE, TRUE),
      Cfg(1, <<1, 2>>, 0, 1, 2, FALSE, TRUE),   \* default MinRequests, above WindowSize
      Cfg(2, <<3, 2>>, 1, 1, 1, FALSE, FALSE) } \* FailureThreshold 1.5

\* What the wrapped operation can return: <<result, err>>.
FnReturns == { <<"ok", "nil">>, <<"partial", "boom">> }
\* What the fallback can return.
FallbackReturns ==
    { <<"cached", "nil">>, <<"nil", "fallback failed">>, <<"nil", "nil">> }

\* ------------------------------------------------------------------- state
VARIABLES
    cb,              \* the fields of CircuitBreaker guarded by mu, and cfg
    totalRequests,   \* atomic.Int64
    totalSuccesses,  \* atomic.Int64
    totalFailures,   \* atomic.Int64
    clock,           \* what cb.now() returns
    call,            \* per goroutine: its Execute call in progress
    observed,        \* the value the last State() call returned
    recorded,        \* history: the outcomes handed to window.record since
                     \* construction or the last HalfOpen -> Closed
    admitted,        \* history: the calls beforeCall has let through to fn
                     \* since the breaker last became HalfOpen; 0 when it is not
    outcomes,        \* history: the Execute calls by what became of them
    metrics,         \* the Metrics() call in progress, or the last one
    moments,         \* history: the values <<totalRequests, totalSuccesses,
                     \* totalFailures>> had between the Lock and the Unlock
                     \* of that Metrics() call
    win,             \* a slidingWindow on its own
    hist,            \* history: what was recorded into win since its
                     \* construction or last reset
    registry,        \* a Registry: the reference of its map, and defaultCfg
    maps,            \* the maps made so far; a reference is an index
    instances,       \* the breakers New has made for the registry; a
                     \* *CircuitBreaker is an index
    rcall,           \* per goroutine: its call of the registry
    regHist          \* history of the calls of the registry

vars == <<cb, totalRequests, totalSuccesses, totalFailures, clock, call,
          observed, recorded, admitted, outcomes, metrics, moments, win, hist,
          registry, maps, instances, rcall, regHist>>

\* The variables of the window on its own.
windowVars == <<win, hist>>

\* The variables of the registry.
registryVars == <<registry, maps, instances, rcall, regHist>>

now == clock

\* History, kept with the breaker: the last call of cfg.OnStateChange.  n counts
\* the calls; name, from, to are the arguments; mu is the state of cb.mu
\* during the call; openedAt, probeSuccesses and count (window.count) are the
\* fields of the breaker as they are during the call.
NoHook ==
    [n |-> 0, name |-> "", from |-> "none", to |-> "none", mu |-> "none",
     openedAt |-> 0, probeSuccesses |-> 0, count |-> 0]

New(cfg) ==
    LET c == withDefaults(cfg)
    IN  [cfg             |-> c,
         state           |-> StateClosed,
         window          |-> newSlidingWindow(c.WindowSize),
         openedAt        |-> 0,      \* the zero time.Time; read only when Open
         lastStateChange |-> now,
         probeSuccesses  |-> 0,
         hook            |-> NoHook]

\* Mutant: the timeout test is strict.
timedOutStrict(b) == now - b.openedAt > b.cfg.RecoveryTimeout

\* now().Sub(openedAt) >= RecoveryTimeout
timedOut(b) == now - b.openedAt >= b.cfg.RecoveryTimeout

\* Mutant: the hook is given the state after the assignment as from.
setStateStaleFrom(b, to) ==
    IF b.state = to THEN b
    ELSE LET b1 == [b EXCEPT !.state = to, !.lastStateChange = now]
         IN  IF b.cfg.OnStateChange
               THEN [b1 EXCEPT !.hook =
                       [n |-> b.hook.n + 1, name |-> b.cfg.Name,
                        from |-> b1.state, to |-> to, mu |-> "held",
                        openedAt |-> b1.openedAt,
                        probeSuccesses |-> b1.probeSuccesses,
                        count |-> b1.window.count]]
               ELSE b1

\* setState is called by State, beforeCall and afterCall, each of which
\* holds cb.mu from its first line to its return; so cfg.OnStateChange runs
\* with mu held, on the breaker as setState has it at that line.
setState(b, to) ==
    IF b.state = to THEN b
    ELSE LET b1 == [b EXCEPT !.state = to, !.lastStateChange = now]
         IN  IF b.cfg.OnStateChange
               THEN [b1 EXCEPT !.hook =
                       [n |-> b.hook.n + 1, name |-> b.cfg.Name,
                        from |-> b.state, to |-> to, mu |-> "held",
                        openedAt |-> b1.openedAt,
                        probeSuccesses |-> b1.probeSuccesses,
                        count |-> b1.window.count]]
               ELSE b1

\* Mutant: an Open breaker lets the call through as soon as any time has
\* passed since openedAt.
beforeCallEarly(b) ==
    CASE b.state = StateClosed   -> [cb |-> b, err |-> "nil"]
      [] b.state = StateOpen     ->
            IF now - b.openedAt > 0
              THEN [cb |-> setState(b, StateHalfOpen), err |-> "nil"]
              ELSE [cb |-> b, err |-> ErrCircuitOpen]
      [] b.state = StateHalfOpen -> [cb |-> b, err |-> "nil"]

\* The critical section of beforeCall: the breaker after it, and its result.
beforeCall(b) ==
    CASE b.state = StateClosed   -> [cb |-> b, err |-> "nil"]
      [] b.state = StateOpen     ->
            IF timedOut(b)
              THEN [cb |-> setState(b, StateHalfOpen), err |-> "nil"]
              ELSE [cb |-> b, err |-> ErrCircuitOpen]
      [] b.state = StateHalfOpen -> [cb |-> b, err |-> "nil"]

\* Mutant: the failure rate must exceed the threshold.
shouldTripStrict(b) ==
    /\ total(b.window) >= b.cfg.MinRequests
    /\ ~RateGE(b.cfg.FailureThreshold, failureRate(b.window))

\* window.total() >= MinRequests && window.failureRate() >= FailureThreshold
shouldTrip(b) ==
    /\ total(b.window) >= b.cfg.MinRequests
    /\ RateGE(failureRate(b.window), b.cfg.FailureThreshold)

\* Mutant: a Closed breaker trips on the failure rate alone, without the
\* MinRequests test.
afterCallNoMin(b, err) ==
    CASE b.state = StateClosed ->
            LET b1 == [b EXCEPT !.window =
                          record(@, IF err # "nil" THEN failure ELSE success)]
            IN  IF RateGE(failureRate(b1.window), b1.cfg.FailureThreshold)
                  THEN [setState(b1, StateOpen) EXCEPT !.openedAt = now]
                  ELSE b1
      [] b.state = StateHalfOpen ->
            IF err # "nil"
              THEN [setState(b, StateOpen) EXCEPT !.openedAt = now,
                                                  !.probeSuccesses = 0]
              ELSE LET b1 == [b EXCEPT !.probeSuccesses = @ + 1]
                   IN  IF b1.probeSuccesses >= b1.cfg.ProbeCount
                         THEN [setState(b1, StateClosed) EXCEPT
                                 !.window = reset(@), !.probeSuccesses = 0]
                         ELSE b1
      [] OTHER -> b

\* Mutant: a failed probe reopens the breaker and keeps the probe successes
\* counted so far.
afterCallKeepProbes(b, err) ==
    CASE b.state = StateClosed ->
            LET b1 == [b EXCEPT !.window =
                          record(@, IF err # "nil" THEN failure ELSE success)]
            IN  IF shouldTrip(b1)
                  THEN [setState(b1, StateOpen) EXCEPT !.openedAt = now]
                  ELSE b1
      [] b.state = StateHalfOpen ->
            IF err # "nil"
              THEN [setState(b, StateOpen) EXCEPT !.openedAt = now]
              ELSE LET b1 == [b EXCEPT !.probeSuccesses = @ + 1]
                   IN  IF b1.probeSuccesses >= b1.cfg.ProbeCount
                         THEN [setState(b1, StateClosed) EXCEPT
                                 !.window = reset(@), !.probeSuccesses = 0]
                         ELSE b1
      [] OTHER -> b

\* Mutant: closing from HalfOpen leaves the window as it is.
afterCallNoReset(b, err) ==
    CASE b.state = StateClosed ->
            LET b1 == [b EXCEPT !.window =
                          record(@, IF err # "nil" THEN failure ELSE success)]
            IN  IF shouldTrip(b1)
                  THEN [setState(b1, StateOpen) EXCEPT !.openedAt = now]
                  ELSE b1
      [] b.state = StateHalfOpen ->
            IF err # "nil"
              THEN [setState(b, StateOpen) EXCEPT !.openedAt = now,
                                                  !.probeSuccesses = 0]
              ELSE LET b1 == [b EXCEPT !.probeSuccesses = @ + 1]
                   IN  IF b1.probeSuccesses >= b1.cfg.ProbeCount
                         THEN [setState(b1, StateClosed) EXCEPT
                                 !.probeSuccesses = 0]
                         ELSE b1
      [] OTHER -> b

\* Mutant: tripping to Open empties the window.
afterCallResetOnTrip(b, err) ==
    CASE b.state = StateClosed ->
            LET b1 == [b EXCEPT !.window =
                          record(@, IF err # "nil" THEN failure ELSE success)]
            IN  IF shouldTrip(b1)
                  THEN [setState(b1, StateOpen) EXCEPT !.openedAt = now,
                                                       !.window = reset(@)]
                  ELSE b1
      [] b.state = StateHalfOpen ->
            IF err # "nil"
              THEN [setState(b, StateOpen) EXCEPT !.openedAt = now,
                                                  !.probeSuccesses = 0]
              ELSE LET b1 == [b EXCEPT !.probeSuccesses = @ + 1]
                   IN  IF b1.probeSuccesses >= b1.cfg.ProbeCount
                         THEN [setState(b1, StateClosed) EXCEPT
                                 !.window = reset(@), !.probeSuccesses = 0]
                         ELSE b1
      [] OTHER -> b

\* The critical section of afterCall, for an operation that returned err.
afterCall(b, err) ==
    CASE b.state = StateClosed ->
            LET b1 == [b EXCEPT !.window =
                          record(@, IF err # "nil" THEN failure ELSE success)]
            IN  IF shouldTrip(b1)
                  THEN [setState(b1, StateOpen) EXCEPT !.openedAt = now]
                  ELSE b1
      [] b.state = StateHalfOpen ->
            IF err # "nil"
              THEN [setState(b, StateOpen) EXCEPT !.openedAt = now,
                                                  !.probeSuccesses = 0]
              ELSE LET b1 == [b EXCEPT !.probeSuccesses = @ + 1]
                   IN  IF b1.probeSuccesses >= b1.cfg.ProbeCount
                         THEN [setState(b1, StateClosed) EXCEPT
                                 !.window = reset(@), !.probeSuccesses = 0]
                         ELSE b1
      [] OTHER -> b

\* Mutant: no outcome is left out.
excludedNever(err, ctxErr) == FALSE

\* Mutant: every outcome under a cancelled context is left out.
excludedAnyResult(err, ctxErr) == ctxErr

\* The test of Execute after fn returned: the outcome is not counted.
excluded(err, ctxErr) == err # "nil" /\ ctxErr

\* ----------------------------------------------------------------- Execute
\* A goroutine's call: pc is where it is in Execute; ctxErr is ctx.Err() # nil;
\* result, err are what fn returned; admErr is what beforeCall returned; ret
\* is what Execute returned.
\* History of the call, written and never read by the code's steps:
\* admState and admElapsed are the state and now().Sub(openedAt) that the
\* admission check found; recState and recProbes are the state and
\* probeSuccesses that afterCall found; fnCalls and fbCalls count the
\* invocations of fn and of the fallback, fbArg is the error the fallback was
\* given and fbRet what it returned.
NoCall ==
    [pc |-> "idle", ctxErr |-> FALSE, result |-> "nil", err |-> "nil",
     ret |-> <<>>, typed |-> <<>>, admErr |-> "nil",
     admState |-> "none", admElapsed |-> 0, recState |-> "none", recProbes |-> 0,
     fnCalls |-> 0, fbCalls |-> 0, fbArg |-> "none", fbRet |-> <<>>]

\* No Execute call has got anywhere.  A call counts as rejected when
\* beforeCall refuses it, as excluded when it returns without afterCall, and
\* as ok or failed by the error that afterCall is given.
NoOutcomes == [ok |-> 0, failed |-> 0, rejected |-> 0, excluded |-> 0]

\* No Metrics() call has been made.  pc is where the call is; the other
\* fields are those of the Metrics value it builds.
NoMetrics ==
    [pc |-> "idle", TotalRequests |-> 0, TotalSuccesses |-> 0,
     TotalFailures |-> 0, CurrentState |-> "none", LastStateChange |-> 0,
     WindowFailureRate |-> <<0, 1>>]

\* A Metrics() call is between its cb.mu.Lock() and its return.
MetricsInProgress == metrics.pc \in {"loadSuccesses", "loadFailures"}

\* Mutant: the critical sections of Execute and State do not wait for mu.
muFreeAlways == TRUE

\* Mutant: Execute holds mu from its admission check until the operation or
\* the fallback has returned.
muFreeHeldByExecute ==
    /\ ~MetricsInProgress
    /\ \A p \in Callers : call[p].pc \notin {"fn", "fallback"}

\* cb.mu.Lock() can be taken.  Every critical section of Execute and State is
\* one step, so only a Metrics() call, which reads the counters one after the
\* other, is ever found holding mu.
muFree == ~MetricsInProgress

\* History: a step that changes a counter while a Metrics() call is in
\* progress adds the new values to moments.
NoteMoment ==
    moments' = IF MetricsInProgress
                 THEN moments \cup {<<totalRequests', totalSuccesses', totalFailures'>>}
                 ELSE moments

\* ---------------------------------------------------- state of the registry
\* The names the registry is asked for.
RegistryNames == {"a", "b"}

\* The Config NewRegistry is given: Config{}.
RegistryDefault == Cfg(0, <<0, 1>>, 0, 0, 0, FALSE, FALSE)

\* The configurations GetWithConfig is called with.
RegistryConfigs ==
    { Cfg(2, <<1, 2>>, 2, 2, 1, FALSE, FALSE),
      Cfg(3, <<1, 1>>, 1, 1, 2, TRUE, TRUE) }

\* What a map gives for a key it does not hold: the nil *CircuitBreaker,
\* with ok false.
Absent == 0

\* make(map[string]*CircuitBreaker)
EmptyMap == [n \in RegistryNames |-> Absent]

\* NewRegistry(defaultCfg); its map is the first map made.
NewRegistry(defaultCfg) == [breakers |-> 1, defaultCfg |-> defaultCfg]

\* No call of the registry.  op and its arguments name and cfg; ret is what
\* the call returned, a *CircuitBreaker or a map; path is history: where the
\* call found or made what it returned.
NoRegistryCall ==
    [pc |-> "idle", op |-> "none", name |-> "none", cfg |-> RegistryDefault,
     ret |-> Absent, path |-> "none"]

\* History: the calls made and the mutations of returned maps so far, the
\* names Get and GetWithConfig were called with, and the breakers they
\* returned for each name.
NoRegistryHistory ==
    [calls |-> 0, mutations |-> 0, requested |-> {},
     got |-> [n \in RegistryNames |-> {}]]

\* A registry just made, and no call of it.
RegistryMade ==
    /\ registry = NewRegistry(RegistryDefault)
    /\ maps = <<EmptyMap>>
    /\ instances = <<>>
    /\ rcall = [p \in Callers |-> NoRegistryCall]
    /\ regHist = NoRegistryHistory

\* The values of the type T that Execute[T] is instantiated with, here
\* string, among the values any that fn and the fallback return.
TypeT == {"", "ok", "partial", "cached"}

\* var zero T
Zero == ""

\* What a failed result.(T) does: panic with an interface conversion error.
Panic == <<"panic", "interface conversion">>

\* Execute[T], given what cb.Execute returned to it.
ExecuteT(r) ==
    IF r[2] # "nil" THEN <<Zero, r[2]>>
    ELSE IF r[1] \in TypeT THEN <<r[1], "nil">>
    ELSE Panic

\* The call c has returned r, and Execute[T], when the call came through it,
\* returns typed.  Its context is gone with it.
Done(c, r) ==
    [c EXCEPT !.pc = "done", !.ret = r, !.typed = ExecuteT(r), !.ctxErr = FALSE,
              !.recState = "none", !.recProbes = 0]

Init ==
    /\ clock = 0
    /\ \E cfg \in Configs : cb = New(cfg)
    /\ totalRequests = 0
    /\ totalSuccesses = 0
    /\ totalFailures = 0
    /\ call = [p \in Callers |-> NoCall]
    /\ observed = "none"
    /\ recorded = 0
    /\ admitted = 0
    /\ outcomes = NoOutcomes
    /\ metrics = NoMetrics
    /\ moments = {}
    /\ win = newSlidingWindow(1)
    /\ hist = <<>>
    /\ RegistryMade

\* Execute is entered: totalRequests.Add(1).  The caller's context may be
\* cancelled already.
Enter(p) ==
    /\ call[p].pc \in {"idle", "done"}
    /\ totalRequests < MaxCalls
    /\ totalRequests' = totalRequests + 1
    /\ \E c \in BOOLEAN :
          call' = [call EXCEPT ![p] = [NoCall EXCEPT !.pc = "beforeCall",
                                                     !.ctxErr = c]]
    /\ UNCHANGED <<cb, totalSuccesses, totalFailures, clock, observed, recorded,
                   admitted, outcomes, metrics, windowVars, registryVars>>
    /\ NoteMoment

\* cb.beforeCall(), under mu.
BeforeCall(p) ==
    /\ call[p].pc = "beforeCall"
    /\ muFree
    /\ LET r == beforeCall(cb)
       IN  /\ cb' = r.cb
           /\ call' = [call EXCEPT
                 ![p].pc         = IF r.err # "nil" THEN "rejected" ELSE "fn",
                 ![p].admState   = cb.state,
                 ![p].admElapsed = clock - cb.openedAt,
                 ![p].admErr     = r.err]
           /\ admitted' = IF r.cb.state = StateHalfOpen THEN admitted + 1 ELSE 0
           /\ outcomes' = IF r.err # "nil"
                            THEN [outcomes EXCEPT !.rejected = @ + 1]
                            ELSE outcomes
    /\ UNCHANGED <<totalRequests, totalSuccesses, totalFailures, clock, observed, recorded,
                   metrics, moments, windowVars, registryVars>>

\* Mutant: a rejection is not counted as a failure.
RejectedNotCounted(p) ==
    /\ call[p].pc = "rejected"
    /\ call' = IF cb.cfg.Fallback
                 THEN [call EXCEPT ![p].pc = "fallback"]
                 ELSE [call EXCEPT ![p] = Done(@, <<"nil", call[p].admErr>>)]
    /\ UNCHANGED <<cb, totalRequests, totalSuccesses, totalFailures, clock, observed, recorded,
                   admitted, outcomes, metrics, windowVars, registryVars>>
    /\ NoteMoment

\* The rejected branch: totalFailures.Add(1), then the fallback if there is
\* one, else return nil, err.
Rejected(p) ==
    /\ call[p].pc = "rejected"
    /\ totalFailures' = totalFailures + 1
    /\ call' = IF cb.cfg.Fallback
                 THEN [call EXCEPT ![p].pc = "fallback"]
                 ELSE [call EXCEPT ![p] = Done(@, <<"nil", call[p].admErr>>)]
    /\ UNCHANGED <<cb, totalRequests, totalSuccesses, clock, observed, recorded,
                   admitted, outcomes, metrics, windowVars, registryVars>>
    /\ NoteMoment

\* Mutant: the fallback's result is returned with the rejection as the error.
FallbackKeepsErr(p) ==
    /\ call[p].pc = "fallback"
    /\ \E r \in FallbackReturns :
          call' = [call EXCEPT ![p] = Done([@ EXCEPT !.fbCalls = @ + 1,
                                                     !.fbArg = call[p].admErr,
                                                     !.fbRet = r],
                                           <<r[1], call[p].admErr>>)]
    /\ UNCHANGED <<cb, totalRequests, totalSuccesses, totalFailures, clock, observed, recorded,
                   admitted, outcomes, metrics, moments, windowVars, registryVars>>

\* return cb.cfg.Fallback(ctx, err)
Fallback(p) ==
    /\ call[p].pc = "fallback"
    /\ \E r \in FallbackReturns :
          call' = [call EXCEPT ![p] = Done([@ EXCEPT !.fbCalls = @ + 1,
                                                     !.fbArg = call[p].admErr,
                                                     !.fbRet = r], r)]
    /\ UNCHANGED <<cb, totalRequests, totalSuccesses, totalFailures, clock, observed, recorded,
                   admitted, outcomes, metrics, moments, windowVars, registryVars>>

\* result, err := fn(ctx); if err != nil && ctx.Err() != nil { return result, err }
\* fn runs from the admission to this step, which is its return and the read
\* of ctx.Err() that follows it.
Fn(p) ==
    /\ call[p].pc = "fn"
    /\ \E r \in FnReturns :
          LET c == [call[p] EXCEPT !.fnCalls = @ + 1, !.result = r[1], !.err = r[2]]
          IN  call' = IF excluded(r[2], call[p].ctxErr)
                        THEN [call EXCEPT ![p] = Done(c, r)]
                        ELSE [call EXCEPT ![p] = [c EXCEPT !.pc = "afterCall"]]
    /\ UNCHANGED <<cb, totalRequests, totalSuccesses, totalFailures, clock, observed, recorded,
                   admitted, metrics, moments, windowVars, registryVars>>
    /\ outcomes' = IF call'[p].pc = "done"
                     THEN [outcomes EXCEPT !.excluded = @ + 1] ELSE outcomes

\* The caller's context is cancelled or passes its deadline, at any moment up
\* to the one place where Execute reads ctx.Err().
Cancel(p) ==
    /\ call[p].pc \in {"beforeCall", "fn"}
    /\ ~call[p].ctxErr
    /\ call' = [call EXCEPT ![p].ctxErr = TRUE]
    /\ UNCHANGED <<cb, totalRequests, totalSuccesses, totalFailures, clock, observed, recorded,
                   admitted, outcomes, metrics, moments, windowVars, registryVars>>

\* cb.afterCall(err), under mu.
AfterCall(p) ==
    /\ call[p].pc = "afterCall"
    /\ muFree
    /\ cb' = afterCall(cb, call[p].err)
    /\ call' = [call EXCEPT ![p].pc        = "count",
                            ![p].recState  = cb.state,
                            ![p].recProbes = cb.probeSuccesses]
    /\ recorded' = IF cb.state = StateClosed THEN recorded + 1
                   ELSE IF cb'.state = StateClosed THEN 0
                   ELSE recorded
    /\ admitted' = IF cb'.state = StateHalfOpen THEN admitted ELSE 0
    /\ outcomes' = IF call[p].err # "nil"
                     THEN [outcomes EXCEPT !.failed = @ + 1]
                     ELSE [outcomes EXCEPT !.ok = @ + 1]
    /\ UNCHANGED <<totalRequests, totalSuccesses, totalFailures, clock, observed,
                   metrics, moments, windowVars, registryVars>>

\* Mutant: a failed call returns nil with the error.
CountDropsResult(p) ==
    /\ call[p].pc = "count"
    /\ IF call[p].err # "nil"
         THEN /\ totalFailures' = totalFailures + 1
              /\ UNCHANGED totalSuccesses
         ELSE /\ totalSuccesses' = totalSuccesses + 1
              /\ UNCHANGED totalFailures
    /\ call' = [call EXCEPT ![p] = Done(@, <<IF call[p].err # "nil" THEN "nil"
                                               ELSE call[p].result, call[p].err>>)]
    /\ UNCHANGED <<cb, totalRequests, clock, observed, recorded,
                   admitted, outcomes, metrics, windowVars, registryVars>>
    /\ NoteMoment

\* totalFailures.Add(1) or totalSuccesses.Add(1), and return result, err.
Count(p) ==
    /\ call[p].pc = "count"
    /\ IF call[p].err # "nil"
         THEN /\ totalFailures' = totalFailures + 1
              /\ UNCHANGED totalSuccesses
         ELSE /\ totalSuccesses' = totalSuccesses + 1
              /\ UNCHANGED totalFailures
    /\ call' = [call EXCEPT ![p] = Done(@, <<call[p].result, call[p].err>>)]
    /\ UNCHANGED <<cb, totalRequests, clock, observed, recorded,
                   admitted, outcomes, metrics, windowVars, registryVars>>
    /\ NoteMoment

\* ------------------------------------------------------------------- State
\* Mutant: State() makes the timeout check in every state.
StateNoOpenTest ==
    /\ muFree
    /\ cb' = IF timedOut(cb) THEN setState(cb, StateHalfOpen) ELSE cb
    /\ observed' = cb'.state
    /\ UNCHANGED <<totalRequests, totalSuccesses, totalFailures, clock, call, recorded,
                   admitted, outcomes, metrics, moments, windowVars, registryVars>>

\* Mutant: State() returns the stored state without the timeout check.
StateStored ==
    /\ muFree
    /\ cb' = cb
    /\ observed' = cb.state
    /\ UNCHANGED <<totalRequests, totalSuccesses, totalFailures, clock, call, recorded,
                   admitted, outcomes, metrics, moments, windowVars, registryVars>>

\* State(), under mu: the lazy Open -> HalfOpen check, then the state.
State ==
    /\ muFree
    /\ cb' = IF cb.state = StateOpen /\ timedOut(cb)
               THEN setState(cb, StateHalfOpen) ELSE cb
    /\ observed' = cb'.state
    /\ UNCHANGED <<totalRequests, totalSuccesses, totalFailures, clock, call, recorded,
                   admitted, outcomes, metrics, moments, windowVars, registryVars>>

\* ------------------------------------------------------------------- clock
\* Mutant: a timer moves the breaker to HalfOpen when RecoveryTimeout is over.
TickTimer ==
    /\ clock < MaxTime
    /\ clock' = clock + 1
    /\ cb' = IF cb.state = StateOpen
                  /\ clock + 1 - cb.openedAt >= cb.cfg.RecoveryTimeout
               THEN [cb EXCEPT !.state = StateHalfOpen,
                               !.lastStateChange = clock + 1]
               ELSE cb
    /\ UNCHANGED <<totalRequests, totalSuccesses, totalFailures, call, observed, recorded,
                   admitted, outcomes, metrics, moments, windowVars, registryVars>>

\* Time passes.  Nothing of the program runs on its own when it does.
Tick ==
    /\ clock < MaxTime
    /\ clock' = clock + 1
    /\ UNCHANGED <<cb, totalRequests, totalSuccesses, totalFailures, call, observed, recorded,
                   admitted, outcomes, metrics, moments, windowVars, registryVars>>

Next ==
    \/ \E p \in Callers :
          \/ Enter(p)
          \/ BeforeCall(p)
          \/ Rejected(p)
          \/ Fallback(p)
          \/ Fn(p)
          \/ Cancel(p)
          \/ AfterCall(p)
          \/ Count(p)
    \/ State
    \/ Tick

Spec == Init /\ [][Next]_vars

\* ----------------------------------------------------------------- Metrics
\* The variables Metrics() leaves alone.
executeVars == <<cb, totalRequests, totalSuccesses, totalFailures, clock, call,
                 observed, recorded, admitted, outcomes, windowVars, registryVars>>

\* cb.mu.Lock() and the first field of the Metrics value:
\* cb.totalRequests.Load().
MetricsLoadRequests ==
    /\ muFree
    /\ metrics' = [NoMetrics EXCEPT !.pc = "loadSuccesses",
                                    !.TotalRequests = totalRequests]
    /\ moments' = {<<totalRequests, totalSuccesses, totalFailures>>}
    /\ UNCHANGED executeVars

\* cb.totalSuccesses.Load()
MetricsLoadSuccesses ==
    /\ metrics.pc = "loadSuccesses"
    /\ metrics' = [metrics EXCEPT !.pc = "loadFailures",
                                  !.TotalSuccesses = totalSuccesses]
    /\ UNCHANGED <<executeVars, moments>>

\* cb.totalFailures.Load(), the fields read from the breaker, the return and
\* the deferred cb.mu.Unlock().
MetricsReturn ==
    /\ metrics.pc = "loadFailures"
    /\ metrics' = [metrics EXCEPT !.pc = "returned",
                                  !.TotalFailures = totalFailures,
                                  !.CurrentState = cb.state,
                                  !.LastStateChange = cb.lastStateChange,
                                  !.WindowFailureRate = failureRate(cb.window)]
    /\ UNCHANGED <<executeVars, moments>>

\* The configurations of the breaker whose Metrics are read.
MetricsConfigs ==
    { Cfg(3, <<1, 1>>, 1, 1, 2, TRUE, TRUE) }

InitMetrics ==
    /\ Init
    /\ cb \in {New(cfg) : cfg \in MetricsConfigs}

\* Callers of Execute, and one goroutine calling Metrics.
NextMetrics ==
    \/ \E p \in Callers :
          \/ Enter(p)
          \/ BeforeCall(p)
          \/ Rejected(p)
          \/ Fallback(p)
          \/ Fn(p)
          \/ Cancel(p)
          \/ AfterCall(p)
          \/ Count(p)
    \/ Tick
    \/ MetricsLoadRequests
    \/ MetricsLoadSuccesses
    \/ MetricsReturn

SpecMetrics == InitMetrics /\ [][NextMetrics]_vars

\* ------------------------------------------------------ the window on its own
\* The window is recorded into at most MaxRecords times between resets.
MaxRecords == 7
\* The sizes a window is made with run from -1 to MaxWindowSize.
MaxWindowSize == 3

\* The variables of the breaker, which a window on its own leaves alone.
breakerVars == <<cb, totalRequests, totalSuccesses, totalFailures, clock, call,
                 observed, recorded, admitted, outcomes, metrics, moments>>

\* A window of size 1, and a breaker that nothing calls.
InitWindow ==
    /\ clock = 0
    /\ cb = New(Cfg(0, <<0, 1>>, 0, 0, 0, FALSE, FALSE))
    /\ totalRequests = 0
    /\ totalSuccesses = 0
    /\ totalFailures = 0
    /\ call = [p \in Callers |-> NoCall]
    /\ observed = "none"
    /\ recorded = 0
    /\ admitted = 0
    /\ outcomes = NoOutcomes
    /\ metrics = NoMetrics
    /\ moments = {}
    /\ win = newSlidingWindow(1)
    /\ hist = <<>>
    /\ RegistryMade

\* win = newSlidingWindow(size), as New makes it
WindowNew ==
    /\ hist = <<>> /\ win.count = 0 /\ win.pos = 0
    /\ \E size \in -1..MaxWindowSize : win' = newSlidingWindow(size)
    /\ UNCHANGED <<breakerVars, hist, registryVars>>

\* win.record(o)
WindowRecord ==
    /\ Len(hist) < MaxRecords
    /\ \E o \in {success, failure} :
          /\ win' = record(win, o)
          /\ hist' = Append(hist, o)
    /\ UNCHANGED <<breakerVars, registryVars>>

\* win.reset()
WindowReset ==
    /\ win' = reset(win)
    /\ hist' = <<>>
    /\ UNCHANGED <<breakerVars, registryVars>>

NextWindow ==
    \/ WindowNew
    \/ WindowRecord
    \/ WindowReset

SpecWindow == InitWindow /\ [][NextWindow]_vars

\* ---------------------------------------------------------------- registry
\* The registry is called at most MaxRegistryCalls times in a behaviour.
MaxRegistryCalls == 4
\* The maps All returned are changed at most MaxMutations times.
MaxMutations == 2

\* Mutant: the breaker is made with the Name the configuration came with.
namedNot(cfg, name) == cfg

\* cfg.Name = name
named(cfg, name) == [cfg EXCEPT !.Name = name]

\* The call of p returns id, found or made on path.
RegistryReturn(p, id, path) ==
    /\ rcall' = [rcall EXCEPT ![p].pc = "done", ![p].ret = id, ![p].path = path]
    /\ regHist' = [regHist EXCEPT !.got[rcall[p].name] = @ \cup {id}]

\* A goroutine calls Get(name), GetWithConfig(name, cfg) or All().
RegistryCall(p) ==
    /\ rcall[p].pc \in {"idle", "done"}
    /\ regHist.calls < MaxRegistryCalls
    /\ \/ \E name \in RegistryNames :
             /\ rcall' = [rcall EXCEPT ![p] =
                            [NoRegistryCall EXCEPT !.pc = "read", !.op = "Get",
                                                   !.name = name]]
             /\ regHist' = [regHist EXCEPT !.calls = @ + 1,
                                           !.requested = @ \cup {name}]
       \/ \E name \in RegistryNames, cfg \in RegistryConfigs :
             /\ rcall' = [rcall EXCEPT ![p] =
                            [NoRegistryCall EXCEPT !.pc = "read",
                                                   !.op = "GetWithConfig",
                                                   !.name = name, !.cfg = cfg]]
             /\ regHist' = [regHist EXCEPT !.calls = @ + 1,
                                           !.requested = @ \cup {name}]
       \/ /\ rcall' = [rcall EXCEPT ![p] =
                            [NoRegistryCall EXCEPT !.pc = "all", !.op = "All"]]
          /\ regHist' = [regHist EXCEPT !.calls = @ + 1]
    /\ UNCHANGED <<registry, maps, instances, breakerVars, windowVars>>

\* Mutant: a GetWithConfig that finds the breaker gives it the new
\* configuration.
RegistryReadReconfigures(p) ==
    /\ rcall[p].pc = "read"
    /\ LET id == maps[registry.breakers][rcall[p].name]
       IN  IF id # Absent
             THEN /\ RegistryReturn(p, id, "read")
                  /\ instances' =
                       IF rcall[p].op = "GetWithConfig"
                         THEN [instances EXCEPT ![id].cfg =
                                 withDefaults(named(rcall[p].cfg, rcall[p].name))]
                         ELSE instances
             ELSE /\ rcall' = [rcall EXCEPT ![p].pc = "write"]
                  /\ UNCHANGED <<regHist, instances>>
    /\ UNCHANGED <<registry, maps, breakerVars, windowVars>>

\* Get and GetWithConfig under r.mu.RLock(): cb, ok := r.breakers[name], and
\* the return if ok.
RegistryRead(p) ==
    /\ rcall[p].pc = "read"
    /\ LET id == maps[registry.breakers][rcall[p].name]
       IN  IF id # Absent
             THEN RegistryReturn(p, id, "read")
             ELSE /\ rcall' = [rcall EXCEPT ![p].pc = "write"]
                  /\ UNCHANGED regHist
    /\ UNCHANGED <<registry, maps, instances, breakerVars, windowVars>>

\* Mutant: no second look under the write lock.
RegistryWriteNoRecheck(p) ==
    /\ rcall[p].pc = "write"
    /\ LET name == rcall[p].name
           cfg  == IF rcall[p].op = "Get" THEN registry.defaultCfg
                   ELSE rcall[p].cfg
       IN  /\ instances' = Append(instances, New(named(cfg, name)))
           /\ maps' = [maps EXCEPT ![registry.breakers][name] =
                                     Len(instances) + 1]
           /\ RegistryReturn(p, Len(instances) + 1, "created")
    /\ UNCHANGED <<registry, breakerVars, windowVars>>

\* Get and GetWithConfig under r.mu.Lock(): the second look, and if the name
\* is still not there cfg.Name = name, New(cfg) and the insertion.
RegistryWrite(p) ==
    /\ rcall[p].pc = "write"
    /\ LET name == rcall[p].name
           id   == maps[registry.breakers][name]
           cfg  == IF rcall[p].op = "Get" THEN registry.defaultCfg
                   ELSE rcall[p].cfg
       IN  IF id # Absent
             THEN /\ RegistryReturn(p, id, "recheck")
                  /\ UNCHANGED <<maps, instances>>
             ELSE /\ instances' = Append(instances, New(named(cfg, name)))
                  /\ maps' = [maps EXCEPT ![registry.breakers][name] =
                                            Len(instances) + 1]
                  /\ RegistryReturn(p, Len(instances) + 1, "created")
    /\ UNCHANGED <<registry, breakerVars, windowVars>>

\* Mutant: All returns the registry's own map.
RegistryAllShared(p) ==
    /\ rcall[p].pc = "all"
    /\ rcall' = [rcall EXCEPT ![p].pc = "done", ![p].ret = registry.breakers,
                              ![p].path = "copy"]
    /\ UNCHANGED <<registry, maps, instances, regHist, breakerVars, windowVars>>

\* All, under r.mu.RLock(): a new map with the entries of r.breakers.
RegistryAll(p) ==
    /\ rcall[p].pc = "all"
    /\ maps' = Append(maps, maps[registry.breakers])
    /\ rcall' = [rcall EXCEPT ![p].pc = "done", ![p].ret = Len(maps) + 1,
                              ![p].path = "copy"]
    /\ UNCHANGED <<registry, instances, regHist, breakerVars, windowVars>>

\* The caller of All changes the map it was given: delete(all, name) or
\* all[name] = cb.
SnapshotMutate(p) ==
    /\ rcall[p].pc = "done" /\ rcall[p].op = "All"
    /\ regHist.mutations < MaxMutations
    /\ \E name \in RegistryNames, v \in {Absent} \cup (1..Len(instances)) :
          /\ maps[rcall[p].ret][name] # v
          /\ maps' = [maps EXCEPT ![rcall[p].ret][name] = v]
    /\ regHist' = [regHist EXCEPT !.mutations = @ + 1]
    /\ UNCHANGED <<registry, instances, rcall, breakerVars, windowVars>>

NextRegistry ==
    \E p \in Callers :
        \/ RegistryCall(p)
        \/ RegistryRead(p)
        \/ RegistryWrite(p)
        \/ RegistryAll(p)
        \/ SnapshotMutate(p)

\* A registry and a breaker that nothing calls.
InitRegistry == InitWindow

SpecRegistry == InitRegistry /\ [][NextRegistry]_vars

\* ---------------------------------------------------------------- recovery
\* The configurations of the breaker whose recovery is followed.
RecoveryConfigs ==
    { Cfg(2, <<1, 2>>, 2, 2, 1, FALSE, FALSE),
      Cfg(3, <<1, 1>>, 1, 1, 2, TRUE, TRUE) }

InitRecovery ==
    /\ Init
    /\ cb \in {New(cfg) : cfg \in RecoveryConfigs}

\* The clock keeps advancing, callers keep calling Execute, and a goroutine
\* that is in Execute is scheduled until the call returns: the operation and
\* the fallback return, and mu is had by whoever waits for it.  Nothing makes
\* a context be cancelled or State() be called.
Scheduling ==
    /\ WF_vars(Tick)
    /\ \A p \in Callers :
          /\ WF_vars(Enter(p))
          /\ WF_vars(BeforeCall(p))
          /\ WF_vars(Rejected(p))
          /\ WF_vars(Fallback(p))
          /\ WF_vars(Fn(p))
          /\ WF_vars(AfterCall(p))
          /\ WF_vars(Count(p))

SpecRecovery == InitRecovery /\ [][Next]_vars /\ Scheduling

\* ------------------------------------------------------------------ claims
\* Steps of goroutine p, told by where p is before and after.
AdmissionStep(p) == call[p].pc = "beforeCall" /\ call'[p].pc # "beforeCall"
RecordingStep(p) == call[p].pc = "afterCall" /\ call'[p].pc = "count"

\* The window holds at least MinRequests outcomes and its failure rate is at
\* least the threshold, read off the fields of breaker b.
TripCondition(b) ==
    /\ b.window.count >= b.cfg.MinRequests
    /\ b.window.count > 0
    /\ b.window.fails * b.cfg.FailureThreshold[2]
          >= b.cfg.FailureThreshold[1] * b.window.count

\* now().Sub(openedAt) of breaker b.
Elapsed(b) == clock - b.openedAt

\* C1: whenever an outcome is recorded while the breaker is Closed and the
\* window then holds at least MinRequests outcomes with a failure rate at or
\* above FailureThreshold, the breaker is Open when the recording completes
\* and openedAt is the current time.
C1_TripsAtThreshold ==
    [][\A p \in Callers :
         RecordingStep(p) /\ cb.state = StateClosed /\ TripCondition(cb')
           => cb'.state = StateOpen /\ cb'.openedAt = clock]_vars

\* A recording in Closed has just tripped the breaker with the failure rate
\* exactly at the threshold.
C1_Witness ==
    \E p \in Callers :
        /\ call[p].pc = "count" /\ call[p].recState = StateClosed
        /\ cb.state = StateOpen /\ cb.openedAt = clock
        /\ cb.window.count >= cb.cfg.MinRequests
        /\ cb.window.fails * cb.cfg.FailureThreshold[2]
              = cb.cfg.FailureThreshold[1] * cb.window.count

\* C2: a Closed breaker leaves Closed only by a recording that leaves the
\* window with at least MinRequests outcomes and a failure rate at or above
\* the threshold, and it leaves to Open; so at least MinRequests outcomes
\* have been recorded since construction or the last close, and at least one
\* of those held is a failure.
C2_ClosedUntilTrip ==
    [][cb.state = StateClosed /\ cb'.state # StateClosed
         => /\ \E p \in Callers : RecordingStep(p)
            /\ cb'.state = StateOpen
            /\ TripCondition(cb')
            /\ recorded' >= cb.cfg.MinRequests
            /\ cb'.window.fails > 0]_vars

\* A failure has just been recorded, fewer than MinRequests outcomes are
\* held, and the breaker is still Closed.
C2_Witness ==
    \E p \in Callers :
        /\ call[p].pc = "count" /\ call[p].recState = StateClosed
        /\ call[p].err # "nil"
        /\ cb.state = StateClosed
        /\ cb.window.fails > 0
        /\ cb.window.count < cb.cfg.MinRequests

\* C3: a call whose admission check finds the breaker Open with less than
\* RecoveryTimeout elapsed since openedAt is rejected: fn is never invoked
\* for it, and with no fallback configured it returns nil, ErrCircuitOpen.
C3_OpenRejects ==
    \A p \in Callers :
        call[p].admState = StateOpen /\ call[p].admElapsed < cb.cfg.RecoveryTimeout
          => /\ call[p].pc \in {"rejected", "fallback", "done"}
             /\ call[p].admErr = ErrCircuitOpen
             /\ call[p].fnCalls = 0
             /\ (call[p].pc = "done" /\ ~cb.cfg.Fallback
                   => call[p].ret = <<"nil", ErrCircuitOpen>>)

\* A call found the breaker Open, some time but less than RecoveryTimeout
\* after openedAt, and has returned ErrCircuitOpen.
C3_Witness ==
    \E p \in Callers :
        /\ call[p].pc = "done" /\ call[p].admState = StateOpen
        /\ call[p].admElapsed > 0
        /\ call[p].admElapsed < cb.cfg.RecoveryTimeout
        /\ call[p].ret = <<"nil", ErrCircuitOpen>>

\* C4: a call whose admission check finds the breaker Open with at least
\* RecoveryTimeout elapsed since openedAt moves the breaker to HalfOpen and
\* is admitted: it is not rejected, the fallback is not called, and fn is
\* invoked.
C4_ProbeAdmitted ==
    /\ [][\A p \in Callers :
            AdmissionStep(p) /\ cb.state = StateOpen
              /\ Elapsed(cb) >= cb.cfg.RecoveryTimeout
              => cb'.state = StateHalfOpen /\ call'[p].pc = "fn"]_vars
    /\ [](\A p \in Callers :
            call[p].admState = StateOpen
              /\ call[p].admElapsed >= cb.cfg.RecoveryTimeout
              => /\ call[p].pc \in {"fn", "afterCall", "count", "done"}
                 /\ call[p].admErr = "nil"
                 /\ call[p].fbCalls = 0
                 /\ (call[p].pc # "fn" => call[p].fnCalls = 1))

\* A call found the breaker Open exactly RecoveryTimeout after openedAt and
\* its fn has run.
C4_Witness ==
    \E p \in Callers :
        /\ call[p].admState = StateOpen
        /\ call[p].admElapsed = cb.cfg.RecoveryTimeout
        /\ call[p].fnCalls = 1

\* C5: State() never returns Open when at least RecoveryTimeout has elapsed
\* since openedAt: called on an Open breaker then, it moves the breaker to
\* HalfOpen and returns HalfOpen.
C5_StateNotStale ==
    [][State /\ Elapsed(cb) >= cb.cfg.RecoveryTimeout
         => /\ observed' # StateOpen
            /\ (cb.state = StateOpen
                  => observed' = StateHalfOpen /\ cb'.state = StateHalfOpen)]_vars

\* State() has returned HalfOpen at the moment of the transition, and no
\* Execute call made that transition.
C5_Witness ==
    /\ observed = StateHalfOpen
    /\ cb.state = StateHalfOpen
    /\ cb.lastStateChange = clock
    /\ clock - cb.openedAt = cb.cfg.RecoveryTimeout
    /\ \A p \in Callers : call[p].admState # StateOpen

\* C6: when the failure of a probe is recorded while the breaker is HalfOpen,
\* the breaker becomes Open, probeSuccesses is 0 whatever it was, and openedAt
\* is the current time; and a call whose admission check finds the breaker
\* Open before openedAt + RecoveryTimeout is rejected and changes nothing.
C6_ProbeFailureReopens ==
    [][\A p \in Callers :
         /\ RecordingStep(p) /\ cb.state = StateHalfOpen /\ call[p].err # "nil"
              => /\ cb'.state = StateOpen
                 /\ cb'.probeSuccesses = 0
                 /\ cb'.openedAt = clock
         /\ AdmissionStep(p) /\ cb.state = StateOpen
              /\ clock < cb.openedAt + cb.cfg.RecoveryTimeout
              => call'[p].pc = "rejected" /\ cb' = cb]_vars

\* A probe has just failed after an earlier probe had succeeded, and the
\* breaker is Open again with the counter back at 0.
C6_Witness ==
    \E p \in Callers :
        /\ call[p].pc = "count" /\ call[p].recState = StateHalfOpen
        /\ call[p].recProbes > 0 /\ call[p].err # "nil"
        /\ cb.state = StateOpen /\ cb.probeSuccesses = 0
        /\ cb.openedAt = clock

\* The smaller of two numbers.
Min(a, b) == IF a < b THEN a ELSE b

\* C7: when the ProbeCount-th successful probe is recorded, the breaker
\* becomes Closed with the window empty (count, fails and cursor 0) and
\* probeSuccesses 0; and whenever a Closed breaker trips, at least MinRequests
\* outcomes have been recorded since construction or the last close, and the
\* window holds only outcomes recorded since then.
C7_ClosingResetsWindow ==
    [][/\ \A p \in Callers :
            RecordingStep(p) /\ cb.state = StateHalfOpen /\ call[p].err = "nil"
              /\ cb.probeSuccesses + 1 >= cb.cfg.ProbeCount
              => /\ cb'.state = StateClosed
                 /\ cb'.window.count = 0 /\ cb'.window.fails = 0
                 /\ cb'.window.pos = 0
                 /\ cb'.probeSuccesses = 0
       /\ cb.state = StateClosed /\ cb'.state = StateOpen
            => /\ recorded' >= cb.cfg.MinRequests
               /\ cb'.window.count = Min(recorded', Len(cb.window.buf))]_vars

\* The second of two required successful probes has just been recorded and
\* the breaker is Closed with an empty window.
C7_Witness ==
    \E p \in Callers :
        /\ call[p].pc = "count" /\ call[p].recState = StateHalfOpen
        /\ call[p].err = "nil"
        /\ cb.cfg.ProbeCount >= 2
        /\ call[p].recProbes + 1 = cb.cfg.ProbeCount
        /\ cb.state = StateClosed /\ cb.window.count = 0

\* The breaker and the success and failure counters are left as they are.
NothingCounted ==
    /\ cb' = cb
    /\ totalSuccesses' = totalSuccesses
    /\ totalFailures' = totalFailures

\* C8: a call admitted in Closed or HalfOpen whose fn returns an error while
\* its context is cancelled changes only totalRequests: entering adds one to
\* totalRequests and nothing else, the admission leaves the breaker as it is,
\* and the return of fn ends the call with fn's result and error, the state,
\* window, probeSuccesses, openedAt, totalSuccesses and totalFailures
\* unchanged.
C8_CancelledErrorLeavesNoTrace ==
    [][\A p \in Callers :
         /\ call[p].pc \in {"idle", "done"} /\ call'[p].pc = "beforeCall"
              => NothingCounted /\ totalRequests' = totalRequests + 1
         /\ AdmissionStep(p) /\ cb.state \in {StateClosed, StateHalfOpen}
              => NothingCounted /\ totalRequests' = totalRequests
                   /\ call'[p].pc = "fn"
         /\ call[p].pc = "fn" /\ call'[p].pc # "fn"
              /\ call[p].ctxErr /\ call'[p].err # "nil"
              => /\ NothingCounted /\ totalRequests' = totalRequests
                 /\ call'[p].pc = "done"
                 /\ call'[p].ret = <<call'[p].result, call'[p].err>>]_vars

\* The only call made so far returned fn's error and was counted neither as
\* a success nor as a failure, and nothing was recorded.
C8_Witness ==
    \E p \in Callers :
        /\ call[p].pc = "done" /\ call[p].fnCalls = 1
        /\ call[p].ret = <<"partial", "boom">>
        /\ totalRequests = 1 /\ totalSuccesses = 0 /\ totalFailures = 0
        /\ recorded = 0 /\ cb.window.count = 0 /\ cb.state = StateClosed

\* C9 as stated: for every admitted call whose context is cancelled by the
\* time fn returns, the steps of the call that follow change neither the
\* window nor totalSuccesses nor totalFailures, whatever fn returned.
C9_CancelledOutcomeExcluded ==
    [][\A p \in Callers :
         call[p].ctxErr /\ call[p].fnCalls = 1 /\ call'[p] # call[p]
           => /\ cb'.window = cb.window
              /\ totalSuccesses' = totalSuccesses
              /\ totalFailures' = totalFailures]_vars

\* C9 as amended: a call whose context is cancelled by the time fn returns is
\* left out of the window and of totalSuccesses and totalFailures if fn
\* returned an error; if fn returned no error the call goes on to afterCall,
\* is recorded in the window when the breaker is Closed, and adds one to
\* totalSuccesses.
C9_CancelledErrorExcluded ==
    /\ [](\A p \in Callers :
            call[p].ctxErr /\ call[p].err # "nil"
              => call[p].pc \notin {"afterCall", "count"})
    /\ [][\A p \in Callers :
            /\ call[p].pc = "fn" /\ call'[p].pc # "fn" /\ call[p].ctxErr
                 => IF call'[p].err # "nil"
                      THEN call'[p].pc = "done" /\ NothingCounted
                      ELSE call'[p].pc = "afterCall"
            /\ RecordingStep(p) /\ call[p].ctxErr /\ cb.state = StateClosed
                 => /\ recorded' = recorded + 1
                    /\ cb'.window.buf[cb.window.pos + 1] = success
            /\ call[p].pc = "count" /\ call'[p].pc = "done" /\ call[p].ctxErr
                 => totalSuccesses' = totalSuccesses + 1]_vars

\* A call whose context was cancelled when fn returned without error has
\* just been recorded in the window as a success.
C9_Witness ==
    \E p \in Callers :
        /\ call[p].pc = "count" /\ call[p].ctxErr /\ call[p].err = "nil"
        /\ call[p].recState = StateClosed
        /\ cb.window.count >= 1 /\ cb.window.fails = 0

\* C10: when a call is rejected and a fallback is configured, the fallback is
\* invoked exactly once, with ErrCircuitOpen, Execute returns what the
\* fallback returned, and fn is not invoked.
C10_FallbackReplacesRejection ==
    \A p \in Callers :
        call[p].admErr = ErrCircuitOpen /\ cb.cfg.Fallback
          => /\ call[p].fnCalls = 0
             /\ IF call[p].pc = "done"
                  THEN /\ call[p].fbCalls = 1
                       /\ call[p].fbArg = ErrCircuitOpen
                       /\ call[p].ret = call[p].fbRet
                  ELSE /\ call[p].pc \in {"rejected", "fallback"}
                       /\ call[p].fbCalls = 0

\* A rejected call has returned the fallback's result with a nil error.
C10_Witness ==
    \E p \in Callers :
        /\ call[p].pc = "done" /\ call[p].admState = StateOpen
        /\ call[p].fbCalls = 1
        /\ call[p].ret = <<"cached", "nil">>

\* C11: a call that was admitted (in Closed, in HalfOpen, or as the probe that
\* moves Open to HalfOpen) is never rejected, never invokes the fallback, and
\* returns exactly the result and error fn returned, whatever the breaker
\* did with the outcome.
C11_AdmittedReturnsFnResult ==
    \A p \in Callers :
        call[p].admState # "none" /\ call[p].admErr = "nil"
          => /\ call[p].pc \in {"fn", "afterCall", "count", "done"}
             /\ call[p].fbCalls = 0
             /\ (call[p].pc = "done"
                   => /\ call[p].fnCalls = 1
                      /\ <<call[p].result, call[p].err>> \in FnReturns
                      /\ call[p].ret = <<call[p].result, call[p].err>>)

\* The probe that moved the breaker from Open to HalfOpen failed, the breaker
\* is Open again, a fallback is configured, and the call returned fn's
\* result and error.
C11_Witness ==
    \E p \in Callers :
        /\ call[p].pc = "done" /\ call[p].admState = StateOpen
        /\ call[p].admErr = "nil" /\ cb.cfg.Fallback
        /\ cb.state = StateOpen
        /\ call[p].ret = <<"partial", "boom">>

\* C12: a rejected call adds exactly one to totalRequests (entering) and
\* exactly one to totalFailures (the rejected branch) and changes nothing
\* else: the admission check that rejects, the rejected branch and the
\* fallback leave the breaker (state, window, probeSuccesses) and
\* totalSuccesses as they are, with or without a fallback, whatever the
\* fallback returns and whether or not the context is cancelled.
C12_RejectionCountsOneFailure ==
    [][\A p \in Callers :
         /\ call[p].pc \in {"idle", "done"} /\ call'[p].pc = "beforeCall"
              => totalRequests' = totalRequests + 1
         /\ AdmissionStep(p) /\ call'[p].admErr = ErrCircuitOpen
              => /\ NothingCounted /\ totalRequests' = totalRequests
                 /\ call'[p].pc = "rejected"
         /\ call[p].pc = "rejected" /\ call'[p].pc # "rejected"
              => /\ cb' = cb
                 /\ totalFailures' = totalFailures + 1
                 /\ totalSuccesses' = totalSuccesses
                 /\ totalRequests' = totalRequests
                 /\ call'[p].pc = IF cb.cfg.Fallback THEN "fallback" ELSE "done"
         /\ call[p].pc = "fallback" /\ call'[p].pc # "fallback"
              => /\ NothingCounted /\ totalRequests' = totalRequests
                 /\ call'[p].pc = "done"]_vars

\* A call entered with its context already cancelled has been rejected and
\* counted as a failure, and its fallback is about to run.
C12_Witness ==
    \E p \in Callers :
        /\ call[p].pc = "fallback" /\ call[p].ctxErr
        /\ call[p].admErr = ErrCircuitOpen
        /\ totalFailures >= 1

\* C13: a configuration whose FailureThreshold is outside (0, 1] is rejected
\* at construction, so no Execute call ever returns from a breaker that works
\* with such a threshold.
C13_InvalidThresholdRejected ==
    (\E p \in Callers : call[p].pc = "done")
      => /\ cb.cfg.FailureThreshold[1] > 0
         /\ cb.cfg.FailureThreshold[1] <= cb.cfg.FailureThreshold[2]

\* The breaker as the last call of the hook found it has the mutations of its
\* transition: openedAt is the time of the transition (lastStateChange, which
\* setState assigns before the call), probeSuccesses is 0, the window is
\* empty.
HookSeesTransitionApplied ==
    /\ cb.hook.to = StateOpen => cb.hook.openedAt = cb.lastStateChange
    /\ cb.hook.from = StateHalfOpen => cb.hook.probeSuccesses = 0
    /\ cb.hook.to = StateClosed => cb.hook.count = 0

\* C14: whenever cfg.OnStateChange has run, cb.mu was not held during the call
\* and the mutations of the transition were done: openedAt was the time of
\* the transition when the breaker entered Open, probeSuccesses was 0 when it
\* left HalfOpen, and the window was empty when it entered Closed.
C14_HookAfterCriticalSection ==
    cb.hook.n > 0 => cb.hook.mu = "free" /\ HookSeesTransitionApplied

\* The counters of a returned Metrics value.
Snapshot ==
    <<metrics.TotalRequests, metrics.TotalSuccesses, metrics.TotalFailures>>

\* C15 as stated: the counters of every Metrics value are the values the
\* three counters had together at one moment of the call.
C15_SnapshotOfOneMoment ==
    metrics.pc = "returned" => Snapshot \in moments

\* C15, amended: CurrentState, LastStateChange and WindowFailureRate of a
\* Metrics value are those of the breaker, which no step changes while the
\* call is in progress; each counter of the value is a value that counter
\* had during the call, and TotalSuccesses + TotalFailures <= TotalRequests.
C15_SnapshotWithinCall ==
    /\ [](metrics.pc = "returned"
            => /\ \A i \in 1..3 : \E m \in moments : m[i] = Snapshot[i]
               /\ metrics.TotalSuccesses + metrics.TotalFailures
                    <= metrics.TotalRequests)
    /\ [][/\ MetricsInProgress => cb' = cb
          /\ MetricsInProgress /\ metrics'.pc = "returned"
               => /\ metrics'.CurrentState = cb.state
                  /\ metrics'.LastStateChange = cb.lastStateChange
                  /\ metrics'.WindowFailureRate = failureRate(cb.window)]_vars

\* A Metrics value of an Open breaker whose counters never had those values
\* together.
C15_Witness ==
    /\ metrics.pc = "returned"
    /\ metrics.CurrentState = StateOpen
    /\ Snapshot \notin moments

\* C16: the calls admitted to fn since the breaker became HalfOpen are at most
\* ProbeCount, however the callers interleave.
C16_ProbesBounded ==
    cb.state = StateHalfOpen => admitted <= cb.cfg.ProbeCount

\* The four edges of the state machine.
Edges ==
    { <<StateClosed, StateOpen>>, <<StateOpen, StateHalfOpen>>,
      <<StateHalfOpen, StateOpen>>, <<StateHalfOpen, StateClosed>> }

\* C17: the breaker starts Closed, and every step that changes the state is
\* one critical section (an admission check, a recording, or State) taking
\* one of the four edges; never Closed to HalfOpen, never Open to Closed.
C17_FourEdges ==
    /\ cb.state = StateClosed
    /\ [][cb'.state # cb.state
            => /\ <<cb.state, cb'.state>> \in Edges
               /\ \/ \E p \in Callers : AdmissionStep(p) \/ RecordingStep(p)
                  \/ observed' = cb'.state /\ call' = call]_vars

\* A breaker without a hook is Closed again: it went to Open, to HalfOpen and
\* back to Closed at a time after construction.
C17_Witness ==
    /\ cb.state = StateClosed
    /\ ~cb.cfg.OnStateChange
    /\ cb.lastStateChange > 0

\* C18: setState on the state the breaker is in changes nothing; a step that
\* changes the state sets lastStateChange and, when OnStateChange is set,
\* calls it once, with cfg.Name, the state before and the state after; a
\* step that does not change the state calls no hook and leaves
\* lastStateChange; so each call's from is the previous call's to, and the
\* first call's from is Closed.
C18_HookOncePerChange ==
    /\ [](setState(cb, cb.state) = cb)
    /\ [][IF cb'.state # cb.state
            THEN /\ cb'.lastStateChange = clock
                 /\ IF cb.cfg.OnStateChange
                      THEN /\ cb'.hook.n = cb.hook.n + 1
                           /\ cb'.hook.name = cb.cfg.Name
                           /\ cb'.hook.from = cb.state
                           /\ cb'.hook.to = cb'.state
                           /\ cb'.hook.from = IF cb.hook.n = 0 THEN StateClosed
                                              ELSE cb.hook.to
                      ELSE cb'.hook = cb.hook
            ELSE /\ cb'.hook = cb.hook
                 /\ cb'.lastStateChange = cb.lastStateChange]_vars

\* The hook has been called three times, the last time for HalfOpen to
\* Closed.
C18_Witness ==
    /\ cb.hook.n = 3
    /\ cb.hook.from = StateHalfOpen
    /\ cb.hook.to = StateClosed
    /\ cb.state = StateClosed

\* No Execute call is in progress.
Quiescent == \A p \in Callers : call[p].pc \in {"idle", "done"}

\* C19: when no Execute call is in progress, totalRequests is the number of
\* calls made, totalSuccesses the number of calls afterCall was given no
\* error for, totalFailures the number of rejected calls plus the number of
\* calls afterCall was given an error for, and totalRequests is their sum
\* plus the number of calls left out for cancellation; whatever the state
\* and the window have been through.
C19_CountersMatchCalls ==
    Quiescent
      => /\ totalRequests = outcomes.ok + outcomes.failed
                              + outcomes.rejected + outcomes.excluded
         /\ totalSuccesses = outcomes.ok
         /\ totalFailures = outcomes.rejected + outcomes.failed
         /\ totalRequests = totalSuccesses + totalFailures + outcomes.excluded

\* Four calls have returned, one of each kind, and the breaker has left
\* Closed and Open on the way.
C19_Witness ==
    /\ Quiescent
    /\ outcomes = [ok |-> 1, failed |-> 1, rejected |-> 1, excluded |-> 1]
    /\ cb.state = StateHalfOpen

\* The last min(C, n) of the n outcomes in h.
Held(h, C) == SubSeq(h, Len(h) - Min(C, Len(h)) + 1, Len(h))
\* The failures in a sequence of outcomes.
Failures(h) == Cardinality({i \in 1..Len(h) : h[i] = failure})

\* C20: for a window of capacity C = len(buf) and the n outcomes recorded
\* since construction or the last reset, total() = min(C, n), fails is the
\* number of failures among the last min(C, n) of them, fails <= count <= C,
\* and failureRate() is fails / count, or 0 when nothing is held.
C20_WindowCounts ==
    LET C    == Len(win.buf)
        held == Held(hist, C)
    IN  /\ total(win) = Min(C, Len(hist))
        /\ win.fails = Failures(held)
        /\ win.fails <= win.count /\ win.count <= C
        /\ failureRate(win) = IF Len(held) = 0 THEN <<0, 1>>
                              ELSE <<Failures(held), Len(held)>>

\* A window of capacity 3 has been recorded into 5 times; the two failures
\* recorded first have been overwritten and it holds one failure.
C20_Witness ==
    /\ Len(win.buf) = 3
    /\ Len(hist) = 5
    /\ hist[1] = failure /\ hist[2] = failure
    /\ win.fails = 1
    /\ failureRate(win) = <<1, 3>>

\* The window w after the outcomes of h have been recorded into it, in order.
RECURSIVE RecordAll(_, _)
RecordAll(w, h) ==
    IF h = <<>> THEN w ELSE RecordAll(record(w, Head(h)), Tail(h))

\* C21: reset() of any window gives total() = 0 and failureRate() = 0 and
\* keeps the capacity; and a window that was reset reports, after any
\* outcomes recorded since, the same total() and failureRate() as a newly
\* made window of the same capacity after the same outcomes, whatever buf
\* held before the reset.
C21_ResetIsFresh ==
    LET fresh == RecordAll(newSlidingWindow(Len(win.buf)), hist)
    IN  /\ total(reset(win)) = 0
        /\ failureRate(reset(win)) = <<0, 1>>
        /\ Len(reset(win).buf) = Len(win.buf)
        /\ total(win) = total(fresh)
        /\ failureRate(win) = failureRate(fresh)

\* A window of capacity 3 was reset while full of successes, which a newly
\* made window never holds where nothing was recorded; one failure has been
\* recorded since, and the last slot still holds a success from before.
C21_Witness ==
    /\ Len(win.buf) = 3
    /\ hist = <<failure>>
    /\ win.count = 1
    /\ win.buf[2] = success /\ win.buf[3] = success

\* The registry's map.
Breakers == maps[registry.breakers]

\* No call of Get or GetWithConfig is in progress.
RegistryQuiet == \A p \in Callers : rcall[p].pc \in {"idle", "done", "all"}

\* The call of p returns in this step.
Returns(p) == rcall[p].pc \in {"read", "write", "all"} /\ rcall'[p].pc = "done"

\* C22: for every name at most one breaker is ever made; the one made is the one stored under the name; every Get and GetWithConfig of the name, in any interleaving, has returned the stored one; and an entry once stored is never replaced or removed.
C22_OneInstancePerName ==
    /\ [](/\ \A i, j \in 1..Len(instances) :
               instances[i].cfg.Name = instances[j].cfg.Name => i = j
          /\ \A i \in 1..Len(instances) :
               /\ instances[i].cfg.Name \in RegistryNames
               /\ Breakers[instances[i].cfg.Name] = i
          /\ \A n \in RegistryNames :
               /\ Breakers[n] \in {Absent} \cup (1..Len(instances))
               /\ regHist.got[n] \subseteq ({Breakers[n]} \ {Absent}))
    /\ [][/\ registry' = registry
          /\ \A n \in RegistryNames :
               Breakers[n] # Absent => maps'[registry.breakers][n] = Breakers[n]]_vars

\* Two goroutines met in the first access of one name: one made the breaker, the other found it on its second look.
C22_Witness ==
    /\ rcall["g1"].pc = "done" /\ rcall["g1"].path = "created"
    /\ rcall["g2"].pc = "done" /\ rcall["g2"].path = "recheck"
    /\ rcall["g1"].name = rcall["g2"].name
    /\ rcall["g1"].op = "Get" /\ rcall["g2"].op = "GetWithConfig"
    /\ rcall["g1"].ret = rcall["g2"].ret

\* C23: a GetWithConfig(name, cfg) that makes the entry makes it of cfg (with the name, and the defaults); one that finds the entry returns the stored breaker and changes no breaker; and no step changes the configuration of a breaker already made.
C23_ConfigOnlyAtCreation ==
    [][/\ \A p \in Callers :
            Returns(p) /\ rcall[p].op = "GetWithConfig" =>
              LET c == rcall'[p]
              IN  IF c.path = "created"
                    THEN /\ Breakers[c.name] = Absent
                         /\ c.ret = Len(instances) + 1
                         /\ Len(instances') = Len(instances) + 1
                         /\ instances'[c.ret].cfg =
                              withDefaults([c.cfg EXCEPT !.Name = c.name])
                    ELSE /\ c.ret = Breakers[c.name]
                         /\ c.ret # Absent
                         /\ instances' = instances
       /\ \A i \in 1..Len(instances) : instances'[i].cfg = instances[i].cfg]_vars

\* A GetWithConfig has found a breaker made of another configuration.
C23_Witness ==
    \E p \in Callers :
        /\ rcall[p].pc = "done" /\ rcall[p].op = "GetWithConfig"
        /\ rcall[p].path \in {"read", "recheck"}
        /\ instances[rcall[p].ret].cfg #
             withDefaults([rcall[p].cfg EXCEPT !.Name = rcall[p].name])

\* The maps that All has returned and its callers hold.
Snapshots == { rcall[p].ret : p \in {q \in Callers : rcall[q].pc = "done" /\ rcall[q].op = "All"} }

\* C24: All() returns a map that is not the registry's and not one returned before, holding the registry's entries of that moment; a change made to a returned map changes neither the registry's map nor any other returned map; and an insertion into the registry changes no returned map.
C24_AllReturnsCopy ==
    [][/\ \A p \in Callers :
            Returns(p) /\ rcall[p].op = "All" =>
              /\ rcall'[p].ret \notin DOMAIN maps
              /\ rcall'[p].ret \in DOMAIN maps'
              /\ maps'[rcall'[p].ret] = Breakers
       /\ regHist'.mutations # regHist.mutations =>
            /\ maps'[registry.breakers] = Breakers
            /\ Cardinality({k \in DOMAIN maps : maps'[k] # maps[k]}) = 1
       /\ maps'[registry.breakers] # Breakers =>
            \A k \in Snapshots : maps'[k] = maps[k]]_vars

\* A returned map lost an entry the registry still has, and the registry got an entry after the map was returned.
C24_Witness ==
    \E p \in Callers :
        /\ rcall[p].pc = "done" /\ rcall[p].op = "All"
        /\ regHist.mutations = 1
        /\ maps[rcall[p].ret]["a"] = Absent /\ Breakers["a"] # Absent
        /\ maps[rcall[p].ret]["b"] = Absent /\ Breakers["b"] # Absent
        /\ Len(instances) = 2

\* C25: an All() that runs when no Get or GetWithConfig is in progress returns a map with an entry for a name exactly when the name was asked for, the entry being the one breaker returned to the callers of that name, whose Name is the key.
C25_AllHoldsRequested ==
    [][\A p \in Callers :
          Returns(p) /\ rcall[p].op = "All" /\ RegistryQuiet =>
            LET all == maps'[rcall'[p].ret]
            IN  \A n \in RegistryNames :
                  /\ all[n] # Absent <=> n \in regHist.requested
                  /\ n \in regHist.requested =>
                       /\ regHist.got[n] = {all[n]}
                       /\ instances[all[n]].cfg.Name = n]_vars

\* All has returned a map with both names, after a call for each.
C25_Witness ==
    \E p \in Callers :
        /\ rcall[p].pc = "done" /\ rcall[p].op = "All"
        /\ regHist.mutations = 0
        /\ regHist.requested = RegistryNames
        /\ regHist.calls = 3
        /\ \A n \in RegistryNames : maps[rcall[p].ret][n] # Absent

\* C26: the CurrentState of a Metrics() snapshot is not Open when, at the moment Metrics() reads it, RecoveryTimeout or more has passed since openedAt.
C26_MetricsNeverStaleOpen ==
    [][metrics.pc = "loadFailures" /\ metrics'.pc = "returned"
         /\ metrics'.CurrentState = StateOpen
       => ~timedOut(cb)]_vars

\* C27: a step in which time passes changes no field of the breaker and no counter; and the stored state leaves Open only for HalfOpen, only when RecoveryTimeout has passed, and only in the admission check of an Execute call or in a State() call (the one step that changes the breaker while no call moves and no time passes).
C27_OpenLeftOnlyOnDemand ==
    [][/\ clock' # clock =>
            /\ cb' = cb
            /\ <<totalRequests, totalSuccesses, totalFailures>>' =
                 <<totalRequests, totalSuccesses, totalFailures>>
       /\ cb.state = StateOpen /\ cb'.state # StateOpen =>
            /\ cb'.state = StateHalfOpen
            /\ timedOut(cb)
            /\ clock' = clock
            /\ \/ \E p \in Callers : AdmissionStep(p)
               \/ call' = call /\ observed' = StateHalfOpen]_vars

\* The stored state is still Open after more than RecoveryTimeout.
C27_Witness ==
    /\ cb.state = StateOpen
    /\ Elapsed(cb) > cb.cfg.RecoveryTimeout

\* C29: whenever the breaker is Closed, it is not the case that its window holds at least MinRequests outcomes with a failure rate at or above FailureThreshold.
C29_ClosedBelowTrip ==
    cb.state = StateClosed => ~TripCondition(cb)

\* A Closed breaker whose window holds MinRequests outcomes or more, a failure among them.
C29_Witness ==
    /\ cb.state = StateClosed
    /\ cb.window.count >= cb.cfg.MinRequests
    /\ cb.window.fails >= 1

\* C30: probeSuccesses is always at least 0 and below ProbeCount, and it is 0 whenever the breaker is Closed or Open.
C30_ProbeSuccessesInRange ==
    /\ 0 <= cb.probeSuccesses
    /\ cb.probeSuccesses < cb.cfg.ProbeCount
    /\ cb.state \in {StateClosed, StateOpen} => cb.probeSuccesses = 0

\* A HalfOpen breaker one successful probe short of closing.
C30_Witness ==
    /\ cb.state = StateHalfOpen
    /\ cb.probeSuccesses = cb.cfg.ProbeCount - 1
    /\ cb.probeSuccesses >= 1

\* C28: for every call that has returned, Execute[T] returns the value with a nil error when Execute returned a nil error, and the zero value of T with the error when Execute returned an error; it does not panic.
C28_TypedMirrorsExecute ==
    \A p \in Callers :
        call[p].pc = "done" =>
          /\ call[p].typed # Panic
          /\ call[p].ret[2] = "nil" => call[p].typed = <<call[p].ret[1], "nil">>
          /\ call[p].ret[2] # "nil" => call[p].typed = <<Zero, call[p].ret[2]>>

\* C31: when afterCall records the outcome of a call whose admission check found the breaker Closed while the breaker is HalfOpen, it changes neither probeSuccesses nor the state; and when it records the outcome of a call admitted as a probe (its admission check found HalfOpen, or Open past the timeout) it leaves the window as it was.
C31_OnlyProbesDecide ==
    [][\A p \in Callers :
          RecordingStep(p) =>
            /\ cb.state = StateHalfOpen /\ call[p].admState = StateClosed =>
                 /\ cb'.probeSuccesses = cb.probeSuccesses
                 /\ cb'.state = StateHalfOpen
            /\ call[p].admState \in {StateHalfOpen, StateOpen} =>
                 cb'.window = cb.window]_vars

\* The outcome afterCall makes of the error of the call of p.
OutcomeOf(p) == IF call[p].err # "nil" THEN failure ELSE success

\* C32: a step of Execute or State() that changes the window (buf, pos, count or fails) is the afterCall of a call either while the breaker is Closed, and the window becomes the old one with the call's outcome recorded, or while it is HalfOpen and closes, and the window becomes the old one reset; and a step that trips the breaker to Open leaves the window holding what it held, with the tripping outcome when the breaker was Closed.
C32_WindowChangedOnlyByRecordAndReset ==
    [][/\ cb'.window # cb.window =>
            \E p \in Callers :
               /\ RecordingStep(p)
               /\ \/ /\ cb.state = StateClosed
                     /\ cb'.window = record(cb.window, OutcomeOf(p))
                  \/ /\ cb.state = StateHalfOpen /\ cb'.state = StateClosed
                     /\ cb'.window = reset(cb.window)
       /\ cb.state # StateOpen /\ cb'.state = StateOpen =>
            \E p \in Callers :
               /\ RecordingStep(p)
               /\ cb'.window = IF cb.state = StateClosed
                                 THEN record(cb.window, OutcomeOf(p))
                                 ELSE cb.window
               /\ cb'.window.count > 0]_vars

\* The outcome of a call admitted in Closed arrived while the breaker was Open, after a rejection, and the window still holds the failure that tripped it.
C32_Witness ==
    \E p \in Callers :
        /\ call[p].pc = "count" /\ call[p].recState = StateOpen
        /\ cb.state = StateOpen
        /\ cb.window.fails > 0
        /\ outcomes.rejected > 0

CallsLeft == MaxCalls - totalRequests

\* The breaker is Open and RecoveryTimeout has passed since openedAt.
OpenTimedOut ==
    cb.state = StateOpen /\ Elapsed(cb) >= cb.cfg.RecoveryTimeout

\* An operation has failed and its outcome is about to be recorded, or the context of a call in progress is cancelled.
FailureSeen ==
    \E p \in Callers :
        \/ call[p].pc = "afterCall" /\ call[p].err # "nil"
        \/ call[p].pc \in {"beforeCall", "fn"} /\ call[p].ctxErr

\* C34: under the scheduling above, an Open breaker whose RecoveryTimeout ends within the time followed comes to have RecoveryTimeout behind it; an Open breaker with RecoveryTimeout behind it and an Execute call still to come, or one at its admission, becomes HalfOpen; and a HalfOpen breaker with no call in progress and as many calls to come as it lacks successful probes becomes Closed, unless an operation fails or a context is cancelled.
C34_RecoveryPossible ==
    /\ (cb.state = StateOpen /\ cb.openedAt + cb.cfg.RecoveryTimeout <= MaxTime)
          ~> (OpenTimedOut \/ cb.state # StateOpen)
    /\ (OpenTimedOut /\ (CallsLeft >= 1 \/ \E p \in Callers : call[p].pc = "beforeCall"))
          ~> (cb.state = StateHalfOpen)
    /\ (/\ cb.state = StateHalfOpen
        /\ \A p \in Callers : call[p].pc \in {"idle", "done"}
        /\ CallsLeft >= cb.cfg.ProbeCount - cb.probeSuccesses)
          ~> (cb.state = StateClosed \/ FailureSeen)

\* A breaker that tripped is Closed again, RecoveryTimeout or more after the start, its window reset, with successes and a failure behind it.
C34_Witness ==
    /\ cb.state = StateClosed
    /\ cb.lastStateChange >= cb.cfg.RecoveryTimeout
    /\ total(cb.window) = 0
    /\ outcomes.failed >= 1
    /\ outcomes.ok >= cb.cfg.ProbeCount

\* C35: whenever the operation or the fallback of a call is running, a State() call can be made and returns, and every other call that stands at its admission check or at the recording of its outcome can take that step: mu is not held.
C35_OperationRunsUnlocked ==
    \A p \in Callers :
        call[p].pc \in {"fn", "fallback"} =>
          /\ ENABLED State
          /\ \A q \in Callers \ {p} :
                /\ call[q].pc = "beforeCall" => ENABLED BeforeCall(q)
                /\ call[q].pc = "afterCall" => ENABLED AfterCall(q)

\* The operations of two calls are running at once, each admitted on its own, and a State() call has returned since the first was admitted.
C35_Witness ==
    /\ \A p \in Callers : call[p].pc = "fn" /\ call[p].admState = StateClosed
    /\ totalRequests = 2
    /\ observed = StateClosed

====
